---------------------------- MODULE Spec2Model ----------------------------
(***************************************************************************)
(* A model of the messaging core of js-waku-stepwise (final tutorial step, *)
(* steps/9_debugging): the MessageManager (send / subscribe / unsubscribe /*)
(* queryHistory), the EncryptionManager configuration it reads, and the    *)
(* useMessages / useHistoricalMessages hooks that drive it.  The @waku/sdk *)
(* node (filter, store, lightPush) is the environment.                     *)
(***************************************************************************)
EXTENDS Integers, Sequences, FiniteSets, TLC

(***************************************************************************)
(* Bounds of the model.                                                    *)
(***************************************************************************)
MaxSubscribes == 2      \* subscribeToMessages calls over a run
MaxRecords    == 2      \* wire records published on the topic over a run
MaxTeardowns  == 2      \* invocations of one subscription's underlying unsubscribe
MaxQueries    == 1      \* queryHistory calls over a run

(***************************************************************************)
(* Keys.  "null" is the absent key.  "own" is the ECIES pair generated by  *)
(* generateKeys, "peer" a remote participant's pair (only its public half  *)
(* can be imported); "sym" is a symmetric key generated here or imported,  *)
(* "foreign" one this side never holds.                                    *)
(***************************************************************************)
Null == "null"
EciesPairs == {"own", "peer"}
SymKeys == {"sym", "foreign"}
EncryptionTypes == {"ecies", "symmetric"}

VARIABLES
  \* EncryptionManager
  isEncryptionEnabled, encryptionType, eciesKeys, symmetricKey,
  \* MessageManager.subscriptions: a Map, kept in insertion order, of
  \* subscription id -> the filter registration it holds
  subscriptions,
  \* the node: filter registrations, records published on the topic (which the
  \* store retains), live deliveries due
  filterRegs, wire, pending,
  \* the useMessages hook instance
  mounted, connected, cleanupArmed, subscriptionIdRef, hasInitializedRef, timer,
  messages,
  \* subscribeToMessages calls awaiting node.filter.subscribe
  subCalls,
  \* unsubscribeFromMessages calls awaiting the underlying unsubscribe, and the
  \* unsubscribeFromAllMessages pass
  unsubCalls, allPass,
  \* the queryHistory call in progress and the hook state it feeds
  query, historicalMessages, hasQueried,
  \* the MessageList component: whether the merged view includes history
  showHistorical,
  \* counters: subscribe calls issued, subscription ids drawn, filter
  \* registrations made, queries issued
  subsIssued, nextUuid, nextReg, queriesIssued,
  \* history (not program state): what became of each record the transport
  \* delivered, how often each id's underlying unsubscribe was invoked and how
  \* often it threw, and what the last settled call returned
  outcomes, teardowns, lastResult

encVars  == <<isEncryptionEnabled, encryptionType, eciesKeys, symmetricKey>>
nodeVars == <<filterRegs, wire, pending>>
hookVars == <<mounted, connected, cleanupArmed, subscriptionIdRef,
              hasInitializedRef, timer>>
subVars  == <<subscriptions, subCalls, subsIssued, nextUuid, nextReg>>
unsubVars == <<unsubCalls, allPass, teardowns>>
queryVars == <<query, historicalMessages, hasQueried, queriesIssued,
               showHistorical>>
vars == <<isEncryptionEnabled, encryptionType, eciesKeys, symmetricKey,
          subscriptions, filterRegs, wire, pending,
          mounted, connected, cleanupArmed, subscriptionIdRef, hasInitializedRef,
          timer, messages, subCalls, unsubCalls, allPass,
          query, historicalMessages, hasQueried, showHistorical,
          subsIssued, nextUuid, nextReg, queriesIssued,
          outcomes, teardowns, lastResult>>

-----------------------------------------------------------------------------
(***************************************************************************)
(* EncryptionManager (steps/8_encryption/src/lib/waku/encryption.ts)       *)
(***************************************************************************)

\* isEncryptionReady(): disabled counts as ready; ECIES needs all three keys.
isEncryptionReady ==
  IF ~isEncryptionEnabled THEN TRUE
  ELSE IF encryptionType = "ecies"
       THEN /\ eciesKeys.privateKey # Null
            /\ eciesKeys.publicKey # Null
            /\ eciesKeys.peerPublicKey # Null
       ELSE symmetricKey # Null

\* The encoder createEncoder() returns: its kind and the key it encrypts to.
PlainCodec == [kind |-> "plain", key |-> Null]

createEncoder ==
  IF ~isEncryptionEnabled THEN PlainCodec
  ELSE IF encryptionType = "ecies"
       THEN IF eciesKeys.peerPublicKey = Null THEN PlainCodec
            ELSE [kind |-> "ecies", key |-> eciesKeys.peerPublicKey]
       ELSE IF symmetricKey = Null THEN PlainCodec
            ELSE [kind |-> "symmetric", key |-> symmetricKey]

\* The decoder createDecoder() returns: its kind and the key it decrypts with.
createDecoder ==
  IF ~isEncryptionEnabled THEN PlainCodec
  ELSE IF encryptionType = "ecies"
       THEN IF eciesKeys.privateKey = Null THEN PlainCodec
            ELSE [kind |-> "ecies", key |-> eciesKeys.privateKey]
       ELSE IF symmetricKey = Null THEN PlainCodec
            ELSE [kind |-> "symmetric", key |-> symmetricKey]


\* getEncryptionStatusMessage()
getEncryptionStatusMessage ==
  IF ~isEncryptionEnabled THEN "Encryption disabled"
  ELSE IF encryptionType = "ecies"
       THEN IF eciesKeys.privateKey = Null \/ eciesKeys.publicKey = Null
            THEN "ECIES: Missing keys - Generate keys first"
            ELSE IF eciesKeys.peerPublicKey = Null
                 THEN "ECIES: Missing peer key - Import peer's public key"
                 ELSE "ECIES: Ready"
       ELSE IF symmetricKey = Null
            THEN "Symmetric: Missing key - Generate or import key"
            ELSE "Symmetric: Ready"

(***************************************************************************)
(* Data handled by encryptMessage / decryptMessage: the UTF-8 bytes of a   *)
(* text, in the clear or sealed under a key.  A sealed value opens only    *)
(* with the matching key (the private half of the ECIES pair it was        *)
(* sealed to, or the same symmetric key).                                  *)
(***************************************************************************)
Texts == {"hi"}
ClearData(t) == [enc |-> "none", key |-> Null, text |-> t]
SealedData(e, k, t) == [enc |-> e, key |-> k, text |-> t]
CryptoData == [enc : {"none"}, key : {Null}, text : Texts]
                \cup [enc : {"ecies"}, key : EciesPairs, text : Texts]
                \cup [enc : {"symmetric"}, key : SymKeys, text : Texts]

\* encryptMessage(message): the bytes returned, or that the call throws.
encryptMessage(message) ==
  IF ~isEncryptionEnabled
  THEN [status |-> "ok", data |-> ClearData(message)]
  ELSE IF ~isEncryptionReady
       THEN [status |-> "throws", data |-> ClearData("")]
       ELSE IF encryptionType = "ecies"
            THEN [status |-> "ok",
                  data |-> SealedData("ecies", eciesKeys.peerPublicKey, message)]
            ELSE [status |-> "ok",
                  data |-> SealedData("symmetric", symmetricKey, message)]

\* decryptMessage(encryptedData): the text returned.  ECIES is tried first
\* whenever a private key is held, then the symmetric key, whatever the
\* selected type; when neither opens the data a placeholder text is returned.
Placeholder(why) == [kind |-> "placeholder", text |-> why]
Recovered(t) == [kind |-> "text", text |-> t]
\* TextDecoder on bytes that are not the UTF-8 of a text yields mojibake
Mojibake == [kind |-> "mojibake", text |-> ""]

decryptMessageEciesOnly(encryptedData) ==
  IF ~isEncryptionEnabled
  THEN IF encryptedData.enc = "none" THEN Recovered(encryptedData.text)
       ELSE Mojibake
  ELSE IF ~isEncryptionReady
       THEN Placeholder(getEncryptionStatusMessage)
       ELSE IF /\ eciesKeys.privateKey # Null
               /\ encryptedData.enc = "ecies"
               /\ encryptedData.key = eciesKeys.privateKey
            THEN Recovered(encryptedData.text)
            ELSE Placeholder("Unable to decrypt")
decryptMessage(encryptedData) ==
  IF ~isEncryptionEnabled
  THEN IF encryptedData.enc = "none" THEN Recovered(encryptedData.text)
       ELSE Mojibake
  ELSE IF ~isEncryptionReady
       THEN Placeholder(getEncryptionStatusMessage)
       ELSE IF /\ eciesKeys.privateKey # Null
               /\ encryptedData.enc = "ecies"
               /\ encryptedData.key = eciesKeys.privateKey
            THEN Recovered(encryptedData.text)
            ELSE IF /\ symmetricKey # Null
                    /\ encryptedData.enc = "symmetric"
                    /\ encryptedData.key = symmetricKey
                 THEN Recovered(encryptedData.text)
                 ELSE Placeholder("Unable to decrypt")

-----------------------------------------------------------------------------
(***************************************************************************)
(* Message codec (ProtoChatMessage, a protobufjs Type with three fields).  *)
(* Bytes are modelled as the sequence of protobuf fields they hold; a      *)
(* truncated or corrupt buffer ends in a field that cannot be read.        *)
(***************************************************************************)
Timestamps == {0, 100, 200}
Senders == {"alice"}
Bodies == {"hi"}
ChatMessages == [timestamp : Timestamps, sender : Senders, message : Bodies]

VarintField(t, n) == [tag |-> t, wt |-> "varint", num |-> n, str |-> ""]
StringField(t, s) == [tag |-> t, wt |-> "len", num |-> 0, str |-> s]
UnreadableField == [tag |-> 0, wt |-> "broken", num |-> 0, str |-> ""]

\* ProtoChatMessage.encode(message).finish()
encodeMessage(m) ==
  << VarintField(1, m.timestamp), StringField(2, m.sender), StringField(3, m.message) >>

\* ProtoChatMessage.decode(data): fields are read in order, a later field
\* overrides an earlier one, an absent field keeps its default, an unknown
\* tag is skipped, an unreadable field throws.
RECURSIVE DecodeFrom(_, _, _)
DecodeFrom(data, i, acc) ==
  IF i > Len(data) THEN [ok |-> TRUE, msg |-> acc]
  ELSE LET f == data[i] IN
    IF f.wt = "broken" THEN [ok |-> FALSE, msg |-> acc]
    ELSE IF f.tag = 1 /\ f.wt = "varint"
         THEN DecodeFrom(data, i + 1, [acc EXCEPT !.timestamp = f.num])
    ELSE IF f.tag = 2 /\ f.wt = "len"
         THEN DecodeFrom(data, i + 1, [acc EXCEPT !.sender = f.str])
    ELSE IF f.tag = 3 /\ f.wt = "len"
         THEN DecodeFrom(data, i + 1, [acc EXCEPT !.message = f.str])
    ELSE IF f.tag \in {1, 2, 3} THEN [ok |-> FALSE, msg |-> acc]
    ELSE DecodeFrom(data, i + 1, acc)

DefaultChatMessage == [timestamp |-> 0, sender |-> "", message |-> ""]

\* decodeMessage(data): ok = FALSE stands for the rethrown decode error.
decodeMessage(data) == DecodeFrom(data, 1, DefaultChatMessage)

\* A buffer cut short after its first field.
Truncated(m) == << VarintField(1, m.timestamp), UnreadableField >>

\* What the reader of a uint64 field hands back: protobufjs returns a
\* JavaScript number when it runs without long.js (a browser bundle) and a
\* Long object {low, high, unsigned} when long.js can be loaded (Node, server
\* rendering, a page that defines Long).  decodeMessage casts the decoded
\* object to ChatMessage without converting the field.
Uint64Readers == {"number", "Long"}

(***************************************************************************)
(* Wire records (WakuMessage): the payload bytes, in the clear (version 0) *)
(* or sealed by an ECIES / symmetric encoder (version 1).  hasPayload is   *)
(* FALSE for a message that carries none.                                  *)
(***************************************************************************)
WireRecord(codec, bytes) ==
  [enc |-> codec.kind, key |-> codec.key, bytes |-> bytes, hasPayload |-> TRUE]
NoPayloadRecord ==
  [enc |-> "plain", key |-> Null, bytes |-> << >>, hasPayload |-> FALSE]

\* What a decoder of the SDK hands to the application callback for a record:
\* "drop" (nothing is handed over: an encrypting decoder rejects a record of
\* another version or one it cannot open), or a message whose payload is the
\* opened bytes.  A plain decoder does not look into the payload: a sealed
\* record reaches the callback as bytes that are no protobuf message.
Opaque == << UnreadableField >>
Dropped == [handed |-> FALSE, hasPayload |-> FALSE, payload |-> << >>]
Handed(bytes) == [handed |-> TRUE, hasPayload |-> TRUE, payload |-> bytes]
HandedEmpty == [handed |-> TRUE, hasPayload |-> FALSE, payload |-> << >>]

fromProtoObj(decoder, rec) ==
  IF decoder.kind = "plain"
  THEN IF ~rec.hasPayload THEN HandedEmpty
       ELSE IF rec.enc = "plain" THEN Handed(rec.bytes) ELSE Handed(Opaque)
  ELSE IF rec.hasPayload /\ rec.enc = decoder.kind /\ rec.key = decoder.key
       THEN Handed(rec.bytes)
       ELSE Dropped

-----------------------------------------------------------------------------
(***************************************************************************)
(* User actions on the encryption configuration (WakuProvider callbacks    *)
(* over the EncryptionManager singleton).                                  *)
(***************************************************************************)
toggleEncryptionResettingType ==
  /\ isEncryptionEnabled' = ~isEncryptionEnabled
  /\ encryptionType' = "ecies"
  /\ UNCHANGED <<eciesKeys, symmetricKey>>
toggleEncryption ==
  /\ isEncryptionEnabled' = ~isEncryptionEnabled
  /\ UNCHANGED <<encryptionType, eciesKeys, symmetricKey>>

setEncryptionType(type) ==
  /\ encryptionType' = type
  /\ UNCHANGED <<isEncryptionEnabled, eciesKeys, symmetricKey>>

generateKeys ==
  IF encryptionType = "ecies"
  THEN /\ eciesKeys' = [eciesKeys EXCEPT !.privateKey = "own", !.publicKey = "own"]
       /\ UNCHANGED <<isEncryptionEnabled, encryptionType, symmetricKey>>
  ELSE /\ symmetricKey' = "sym"
       /\ UNCHANGED <<isEncryptionEnabled, encryptionType, eciesKeys>>

importPublicKey(k) ==
  /\ eciesKeys' = [eciesKeys EXCEPT !.peerPublicKey = k]
  /\ UNCHANGED <<isEncryptionEnabled, encryptionType, symmetricKey>>

importSymmetricKey(k) ==
  /\ symmetricKey' = k
  /\ UNCHANGED <<isEncryptionEnabled, encryptionType, eciesKeys>>

notEnc == <<subscriptions, filterRegs, wire, pending, mounted, connected,
            cleanupArmed, subscriptionIdRef, hasInitializedRef, timer, messages,
            subCalls, unsubCalls, allPass, query, historicalMessages, hasQueried,
            subsIssued, nextUuid, nextReg, queriesIssued, outcomes, teardowns,
            lastResult, showHistorical>>

ToggleEncryption == toggleEncryption /\ UNCHANGED notEnc
SetEncryptionType == \E t \in EncryptionTypes :
  t # encryptionType /\ setEncryptionType(t) /\ UNCHANGED notEnc
GenerateKeys == generateKeys /\ UNCHANGED notEnc
ImportPublicKey == \E k \in EciesPairs : importPublicKey(k) /\ UNCHANGED notEnc
ImportSymmetricKey == \E k \in SymKeys : importSymmetricKey(k) /\ UNCHANGED notEnc

-----------------------------------------------------------------------------
(***************************************************************************)
(* Helpers on the subscriptions Map (insertion-ordered).                   *)
(***************************************************************************)
Ids == 1 .. MaxSubscribes
Range(seq) == {seq[i] : i \in 1 .. Len(seq)}
Keys(map) == {map[i].id : i \in 1 .. Len(map)}
MapHas(map, id) == id \in Keys(map)
MapGet(map, id) == (CHOOSE e \in Range(map) : e.id = id).reg
MapDeleteKeeps(map, id) == map
MapDelete(map, id) == SelectSeq(map, LAMBDA e : e.id # id)
\* Map.set: replaces the value of a key already present, else appends
MapSet(map, id, reg) ==
  IF MapHas(map, id)
  THEN [i \in 1 .. Len(map) |->
          IF map[i].id = id THEN [id |-> id, reg |-> reg] ELSE map[i]]
  ELSE Append(map, [id |-> id, reg |-> reg])
RemoveAt(seq, i) == SubSeq(seq, 1, i - 1) \o SubSeq(seq, i + 1, Len(seq))

RegIds == {g.reg : g \in filterRegs}
RegOf(r) == CHOOSE g \in filterRegs : g.reg = r

(***************************************************************************)
(* MessageManager.subscribeToMessages, first half: the decoder is created  *)
(* from the encryption settings of this moment and node.filter.subscribe   *)
(* is called; the call then awaits it.                                     *)
(***************************************************************************)
SubscribeCall(owner) ==
  /\ subsIssued < MaxSubscribes
  /\ subCalls' = Append(subCalls, [owner |-> owner, decoder |-> createDecoder])
  /\ subsIssued' = subsIssued + 1

(***************************************************************************)
(* The useMessages effect (deps [node, isConnected]) and its cleanup.      *)
(***************************************************************************)
\* unsubscribeFromMessages up to its await: no entry -> returns at once;
\* otherwise the underlying unsubscribe is invoked and awaited.
UnsubBegin(id, from, calls, tds) ==
  IF MapHas(subscriptions, id)
  THEN [calls |-> Append(calls, [id |-> id, reg |-> MapGet(subscriptions, id),
                                 from |-> from]),
        tds |-> [tds EXCEPT ![id].invoked = @ + 1],
        found |-> TRUE]
  ELSE [calls |-> calls, tds |-> tds, found |-> FALSE]

\* One commit of the effect: the previous run's cleanup, if that run returned
\* one (clearTimeout, then unsubscribe the id the ref holds and reset both
\* refs), followed by the effect body with the new node / isConnected, unless
\* the component is unmounting.
EffectCommit(newConnected, rerun) ==
  LET unsub == cleanupArmed /\ subscriptionIdRef # 0
      b == UnsubBegin(subscriptionIdRef, "hook", unsubCalls, teardowns)
      idAfter == IF unsub THEN 0 ELSE subscriptionIdRef
      initAfter == IF unsub THEN FALSE ELSE hasInitializedRef
      arm == rerun /\ newConnected /\ ~initAfter /\ idAfter = 0
  IN /\ unsub => teardowns[subscriptionIdRef].invoked < MaxTeardowns
     /\ unsubCalls' = IF unsub THEN b.calls ELSE unsubCalls
     /\ teardowns' = IF unsub THEN b.tds ELSE teardowns
     /\ subscriptionIdRef' = idAfter
     /\ hasInitializedRef' = initAfter
     /\ timer' = IF arm THEN TRUE ELSE IF cleanupArmed THEN FALSE ELSE timer
     /\ cleanupArmed' = arm

\* isConnected (with node set) changes value.
ConnectionChange ==
  /\ mounted
  /\ connected' = ~connected
  /\ EffectCommit(~connected, TRUE)
  /\ UNCHANGED <<mounted, messages, allPass, lastResult>>
  /\ UNCHANGED <<encVars, nodeVars, subVars, queryVars, outcomes>>

\* The node object is replaced while connected (initNode with another seed):
\* the effect re-runs with isConnected still true.
NodeChange ==
  /\ mounted
  /\ connected
  /\ EffectCommit(TRUE, TRUE)
  /\ UNCHANGED <<mounted, connected, messages, allPass, lastResult>>
  /\ UNCHANGED <<encVars, nodeVars, subVars, queryVars, outcomes>>

\* Unmount: the armed cleanup runs, no effect follows.
Unmount ==
  /\ mounted
  /\ mounted' = FALSE
  /\ EffectCommit(connected, FALSE)
  /\ UNCHANGED <<connected, messages, allPass, lastResult>>
  /\ UNCHANGED <<encVars, nodeVars, subVars, queryVars, outcomes>>

\* The 2-second initialization timer fires and runs the hook's
\* subscribeToMessages up to the await of messageManager.subscribeToMessages.
TimerFire ==
  /\ timer
  /\ timer' = FALSE
  /\ IF subscriptionIdRef # 0
     THEN UNCHANGED <<subCalls, subsIssued>>
     ELSE SubscribeCall("hook")
  /\ UNCHANGED <<mounted, connected, cleanupArmed, subscriptionIdRef,
                 hasInitializedRef, messages, subscriptions, nextUuid, nextReg,
                 lastResult>>
  /\ UNCHANGED <<encVars, nodeVars, unsubVars, queryVars, outcomes>>

\* Another caller of the exported messageManager (the NodeInfo component
\* mounts a useMessages instance of its own) calls subscribeToMessages.
ApiSubscribe ==
  /\ SubscribeCall("api")
  /\ UNCHANGED <<subscriptions, nextUuid, nextReg, messages, lastResult>>
  /\ UNCHANGED <<encVars, nodeVars, hookVars, unsubVars, queryVars, outcomes>>

(***************************************************************************)
(* node.filter.subscribe settles for the call at position i.               *)
(*   ok = FALSE: it resolved with an error (rethrown by line 231) or       *)
(*   rejected: subscribeToMessages throws, nothing is stored; the hook     *)
(*   records a protocol error.                                             *)
(*   ok = TRUE: a registration exists in the filter; a fresh id is drawn   *)
(*   and stored with it; the hook's continuation stores the id in its ref. *)
(***************************************************************************)
StoreSubscriptionUnderFirstId(map, id, reg) == MapSet(map, 1, reg)
StoreSubscription(map, id, reg) == MapSet(map, id, reg)

SubscribeSettle(i, ok) ==
  LET c == subCalls[i] IN
  /\ subCalls' = RemoveAt(subCalls, i)
  /\ IF ok
     THEN /\ filterRegs' = filterRegs \cup
               {[reg |-> nextReg, decoder |-> c.decoder, owner |-> c.owner]}
          /\ nextReg' = nextReg + 1
          /\ subscriptions' = StoreSubscription(subscriptions, nextUuid, nextReg)
          /\ nextUuid' = nextUuid + 1
          /\ lastResult' = [op |-> "subscribe", id |-> nextUuid, result |-> "ok"]
          /\ IF c.owner = "hook"
             THEN subscriptionIdRef' = nextUuid /\ hasInitializedRef' = TRUE
             ELSE UNCHANGED <<subscriptionIdRef, hasInitializedRef>>
     ELSE /\ lastResult' = [op |-> "subscribe", id |-> 0, result |-> "throws"]
          /\ UNCHANGED <<filterRegs, nextReg, subscriptions, nextUuid,
                         subscriptionIdRef, hasInitializedRef>>
  /\ UNCHANGED <<wire, pending, mounted, connected, cleanupArmed, timer, messages,
                 subsIssued>>
  /\ UNCHANGED <<encVars, unsubVars, queryVars, outcomes>>

SubscribeSucceeds == \E i \in 1 .. Len(subCalls) : SubscribeSettle(i, TRUE)
SubscribeFails == \E i \in 1 .. Len(subCalls) : SubscribeSettle(i, FALSE)

(***************************************************************************)
(* MessageManager.unsubscribeFromMessages called through the API with any  *)
(* id ever handed out.                                                     *)
(***************************************************************************)
ApiUnsubscribe(id) ==
  LET b == UnsubBegin(id, "api", unsubCalls, teardowns) IN
  /\ MapHas(subscriptions, id) => teardowns[id].invoked < MaxTeardowns
  /\ unsubCalls' = b.calls
  /\ teardowns' = b.tds
  /\ lastResult' = IF b.found THEN lastResult
                   ELSE [op |-> "unsubscribe", id |-> id, result |-> "notfound"]
  /\ UNCHANGED <<allPass, messages>>
  /\ UNCHANGED <<encVars, nodeVars, hookVars, subVars, queryVars, outcomes>>

(***************************************************************************)
(* MessageManager.unsubscribeFromAllMessages: the keys are snapshotted and *)
(* unsubscribeFromMessages is awaited for each in turn; nothing catches a  *)
(* throw, so the first one ends the pass.  PassAdvance runs the loop from  *)
(* position i up to its next await: ids no longer in the Map return at     *)
(* once, the first id still there has its underlying unsubscribe invoked.  *)
(***************************************************************************)
IdlePass == [status |-> "idle", ids |-> << >>, i |-> 0, attempted |-> {}]

PassAdvance(map, pass, i, calls, tds) ==
  LET present == {j \in i .. Len(pass.ids) : MapHas(map, pass.ids[j])} IN
  IF present = {}
  THEN [pass |-> [pass EXCEPT !.status = "done", !.i = Len(pass.ids) + 1,
                              !.attempted = Range(pass.ids)],
        calls |-> calls, tds |-> tds]
  ELSE LET j == CHOOSE k \in present : \A l \in present : k <= l
           id == pass.ids[j]
       IN [pass |-> [pass EXCEPT !.status = "waiting", !.i = j,
                           !.attempted = {pass.ids[k] : k \in 1 .. j}],
           calls |-> Append(calls, [id |-> id, reg |-> MapGet(map, id),
                                    from |-> "all"]),
           tds |-> [tds EXCEPT ![id].invoked = @ + 1]]

ApiUnsubscribeAll ==
  /\ allPass.status = "idle"
  /\ LET ids == [k \in 1 .. Len(subscriptions) |-> subscriptions[k].id]
         a == PassAdvance(subscriptions, [IdlePass EXCEPT !.ids = ids], 1,
                          unsubCalls, teardowns)
     IN /\ allPass' = a.pass
        /\ unsubCalls' = a.calls
        /\ teardowns' = a.tds
  /\ UNCHANGED <<messages, lastResult>>
  /\ UNCHANGED <<encVars, nodeVars, hookVars, subVars, queryVars, outcomes>>

\* The subscriptions Map after the awaited underlying unsubscribe of id
\* settled: the entry is deleted once it resolved (line 264) and is left
\* alone when it threw (the catch of line 270 only logs and rethrows).
EntriesAfterUnsubscribeAlways(map, id, ok) == MapDelete(map, id)
EntriesAfterUnsubscribe(map, id, ok) ==
  IF ok THEN MapDelete(map, id) ELSE map

\* The underlying subscription.unsubscribe([]) of the call at position i
\* settles.  ok: the registration is gone from the filter and the entry is
\* deleted.  ~ok: it threw; the entry stays and the error is rethrown (to the
\* hook's .catch, to the API caller, or out of the unsubscribe-all pass).
UnsubSettle(i, ok) ==
  LET c == unsubCalls[i]
      rest == RemoveAt(unsubCalls, i)
      map == EntriesAfterUnsubscribe(subscriptions, c.id, ok)
      tds == IF ok THEN teardowns ELSE [teardowns EXCEPT ![c.id].threw = @ + 1]
      a == PassAdvance(map, allPass, allPass.i + 1, rest, tds)
  IN
  /\ subscriptions' = map
  /\ IF ok
     THEN /\ filterRegs' = {g \in filterRegs : g.reg # c.reg}
          /\ pending' = {d \in pending : d.reg # c.reg}
     ELSE UNCHANGED <<filterRegs, pending>>
  /\ lastResult' = [op |-> "unsubscribe", id |-> c.id,
                    result |-> IF ok THEN "ok" ELSE "throws"]
  /\ IF c.from = "all"
     THEN IF ok
          THEN allPass' = a.pass /\ unsubCalls' = a.calls /\ teardowns' = a.tds
          ELSE /\ allPass' = [allPass EXCEPT !.status = "threw"]
               /\ unsubCalls' = rest
               /\ teardowns' = tds
     ELSE unsubCalls' = rest /\ teardowns' = tds /\ UNCHANGED allPass
  /\ UNCHANGED <<wire, messages, subCalls, subsIssued, nextUuid, nextReg>>
  /\ UNCHANGED <<encVars, hookVars, queryVars, outcomes>>

UnsubscribeSucceeds == \E i \in 1 .. Len(unsubCalls) : UnsubSettle(i, TRUE)
UnsubscribeThrows == \E i \in 1 .. Len(unsubCalls) : UnsubSettle(i, FALSE)

-----------------------------------------------------------------------------
(***************************************************************************)
(* Records appear on the topic: sent by this node (sendMessage through     *)
(* lightPush) or by other participants.  The store retains each of them    *)
(* and the filter owes it to every registration active at that moment.     *)
(***************************************************************************)
Clock == {300}          \* values Date.now() returns while receiving
SendClock == {100, 200} \* values Date.now() returns while sending

Publish(rec) ==
  /\ Len(wire) < MaxRecords
  /\ wire' = Append(wire, rec)
  /\ pending' = pending \cup {[reg |-> r, idx |-> Len(wire) + 1] : r \in RegIds}
  /\ UNCHANGED filterRegs

\* createMessage(sender, message)
createMessageSwapped(sender, message, now) ==
  [timestamp |-> now, sender |-> message, message |-> sender]
createMessage(sender, message, now) ==
  [timestamp |-> now, sender |-> sender, message |-> message]

\* What one node.lightPush.send call can come to: it resolves with lists of
\* successes and failures ("ok": a success and no failure; "partial": both;
\* "failures": only failures; "none": both lists empty), or it rejects
\* ("throws"); "not-reached": createMessage, encodeMessage or
\* createChatEncoder threw and the call was never made.
PushOutcomes == {"ok", "partial", "failures", "none", "throws", "not-reached"}
Successes(push) == IF push \in {"ok", "partial"} THEN 1 ELSE 0
Failures(push) == IF push \in {"partial", "failures"} THEN 1 ELSE 0

\* The value sendMessage resolves with (lines 107-118).
sendReturnsUnlessThrown(push) == push \notin {"throws", "not-reached"}
sendReturns(push) ==
  IF push \in {"throws", "not-reached"} THEN FALSE
  ELSE IF Failures(push) > 0 THEN FALSE
  ELSE Successes(push) > 0

\* What a send came to, kept in lastResult: the position on the topic of the
\* record it put there (0: none), the value handed to the caller, how many
\* times node.lightPush.send was called and what it came to, and the sender
\* and text given.
SendResult(idx, returned, pushes, push, sender, message) ==
  [op |-> "send", id |-> idx, result |-> IF returned THEN "true" ELSE "false",
   pushes |-> pushes, push |-> push,
   sent |-> [sender |-> sender, message |-> message]]

\* MessageManager.sendMessage(node, sender, message): one call of
\* node.lightPush.send, whose outcome is push; a record reaches the topic
\* when a peer accepted it.
sendMessageRetrying(sender, message, now, push) ==
  LET payload == encodeMessage(createMessage(sender, message, now))
      encoder == createEncoder
      accepted == Successes(push) > 0
  IN /\ IF accepted
        THEN Publish(WireRecord(encoder, payload))
        ELSE UNCHANGED <<filterRegs, wire, pending>>
     /\ lastResult' = SendResult(IF accepted THEN Len(wire) + 1 ELSE 0,
                                 sendReturns(push),
                                 IF push = "not-reached" THEN 0
                                 ELSE IF sendReturns(push) THEN 1 ELSE 2,
                                 push, sender, message)
sendMessage(sender, message, now, push) ==
  LET payload == encodeMessage(createMessage(sender, message, now))
      encoder == createEncoder
      accepted == Successes(push) > 0
  IN /\ IF accepted
        THEN Publish(WireRecord(encoder, payload))
        ELSE UNCHANGED <<filterRegs, wire, pending>>
     /\ lastResult' = SendResult(IF accepted THEN Len(wire) + 1 ELSE 0,
                                 sendReturns(push),
                                 IF push = "not-reached" THEN 0 ELSE 1,
                                 push, sender, message)

\* !s.trim(): the string is empty or holds only white space.
IsBlank(s) == s \in {"", " ", "  "}

\* The input validation of the hook's send (part_010 62-71).
rejectsBlankTextOnly(sender, text) == IsBlank(text)
rejectsBlank(sender, text) == IsBlank(text) \/ IsBlank(sender)

\* The useSendMessage hook's send (part_010 60-112): with a blank text or
\* sender it sets an error and returns false ("blank"); so it does without a
\* connected node, or before its LightPush delay has passed (isInitialized);
\* otherwise it calls sendMessage with the sender and the text as given and
\* returns false when that did.  clock: the values Date.now() may return.
SendFrom(senders, bodies, clock) ==
  /\ \E sender \in senders, text \in bodies :
       \E isInitialized \in (IF connected THEN BOOLEAN ELSE {FALSE}) :
         IF rejectsBlank(sender, text)
         THEN /\ lastResult' = SendResult(0, FALSE, 0, "blank", sender, text)
              /\ UNCHANGED <<filterRegs, wire, pending>>
         ELSE IF connected /\ isInitialized
         THEN \E now \in clock, push \in PushOutcomes :
                sendMessage(sender, text, now, push)
         ELSE /\ lastResult' = SendResult(0, FALSE, 0, "not-reached", sender, text)
              /\ UNCHANGED <<filterRegs, wire, pending>>
  /\ UNCHANGED <<messages, subscriptions, subCalls, subsIssued, nextUuid, nextReg>>
  /\ UNCHANGED <<encVars, hookVars, unsubVars, queryVars, outcomes>>

SendMessage(clock) == SendFrom(Senders, Bodies, clock)

\* Records other participants can put on the topic.
RemoteCodecs == {PlainCodec,
                 [kind |-> "ecies", key |-> "own"],
                 [kind |-> "ecies", key |-> "peer"],
                 [kind |-> "symmetric", key |-> "sym"],
                 [kind |-> "symmetric", key |-> "foreign"]}
RemoteRecords ==
  {WireRecord(c, encodeMessage(m)) : c \in RemoteCodecs, m \in ChatMessages}
    \cup {WireRecord(c, Truncated(m)) : c \in RemoteCodecs, m \in ChatMessages}
    \cup {NoPayloadRecord}

RemotePublish(records) ==
  /\ \E rec \in records : Publish(rec)
  /\ UNCHANGED <<messages, subscriptions, subCalls, subsIssued, nextUuid, nextReg,
                 lastResult>>
  /\ UNCHANGED <<encVars, hookVars, unsubVars, queryVars, outcomes>>

-----------------------------------------------------------------------------
(***************************************************************************)
(* Handling one inbound message.                                           *)
(***************************************************************************)
\* uuidv4() for a message: a value no other draw yields, named here by the
\* occasion of the draw (channel, record, attempt within the handler).
MessageId(source, chan, idx, attempt) ==
  [source |-> source, chan |-> chan, idx |-> idx, attempt |-> attempt]

Metadata(m, ts, id, now, source, encrypted, type) ==
  [message |-> m, timestamp |-> ts, id |-> id, receivedTime |-> now,
   source |-> source, encrypted |-> encrypted, encryptionType |-> type]

\* isEncryptionEnabled after the handler's "restore" statements, in a handler
\* that found encryption enabled and called toggleEncryption() once.
RestoreAfterSuccessSkipped(wasEnabled, flag) == flag
RestoreAfterSuccess(wasEnabled, flag) == IF wasEnabled THEN ~flag ELSE flag
RestoreAfterFailureSkipped(flag) == flag
RestoreAfterFailure(flag) == IF ~flag THEN ~flag ELSE flag

\* The filter callback of subscribeToMessages (lines 143-227) on the message
\* h the decoder handed over.  throws1 / throws2: whether the subscriber's
\* callback throws on its first / second invocation.  Result: the metadata
\* records passed to the callback, in order; the path taken; the value of
\* isEncryptionEnabled when the handler returns.
LiveHandler(h, chan, idx, now, throws1, throws2) ==
  IF ~h.hasPayload
  THEN [calls |-> << >>, path |-> "nopayload", enabled |-> isEncryptionEnabled]
  ELSE
    LET d == decodeMessage(h.payload)
        m1 == Metadata(d.msg, d.msg.timestamp, MessageId("filter", chan, idx, 1),
                       now, "filter", isEncryptionEnabled, encryptionType)
        first == IF d.ok THEN << m1 >> ELSE << >>
    IN
    IF d.ok /\ ~throws1
    THEN [calls |-> first, path |-> "decoded", enabled |-> isEncryptionEnabled]
    ELSE IF ~isEncryptionEnabled
         THEN [calls |-> first,
               path |-> IF d.ok THEN "callback-threw" ELSE "undecodable",
               enabled |-> isEncryptionEnabled]
         ELSE
           LET wasEnabled == isEncryptionEnabled
               originalType == encryptionType
               toggled == ~isEncryptionEnabled
               d2 == decodeMessage(h.payload)
               m2 == Metadata(d2.msg, d2.msg.timestamp,
                              MessageId("filter", chan, idx, 2), now, "filter",
                              FALSE, originalType)
           IN IF d2.ok /\ ~throws2
              THEN [calls |-> first \o << m2 >>, path |-> "fallback",
                    enabled |-> RestoreAfterSuccess(wasEnabled, toggled)]
              ELSE [calls |-> first \o (IF d2.ok THEN << m2 >> ELSE << >>),
                    path |-> IF d2.ok THEN "callback-threw" ELSE "undecodable",
                    enabled |-> RestoreAfterFailure(toggled)]

\* The hook's callback: setMessages appends a message whose id is not yet in
\* the list.
AddMessages(list, calls) ==
  IF calls = << >> THEN list
  ELSE LET RECURSIVE Add(_, _)
           Add(l, k) == IF k > Len(calls) THEN l
                        ELSE IF \E x \in Range(l) : x.id = calls[k].id
                             THEN Add(l, k + 1)
                             ELSE Add(Append(l, calls[k]), k + 1)
       IN Add(list, 1)

Outcome(source, chan, idx, handed, path, ncalls) ==
  [source |-> source, chan |-> chan, idx |-> idx, handed |-> handed,
   path |-> path, calls |-> ncalls,
   enabled |-> isEncryptionEnabled, ready |-> isEncryptionReady]

\* The filter delivers a record it owes to a registration (records reach one
\* registration in the order they were published): the registration's decoder
\* opens it (or drops it) and the callback runs to completion.
Deliver(d, now, throws1, throws2) ==
  LET g == RegOf(d.reg)
      h == fromProtoObj(g.decoder, wire[d.idx])
      r == LiveHandler(h, d.reg, d.idx, now, throws1, throws2)
  IN
  /\ \A e \in pending : e.reg = d.reg => d.idx <= e.idx
  /\ pending' = pending \ {d}
  /\ IF h.handed
     THEN /\ isEncryptionEnabled' = r.enabled
          /\ messages' = IF g.owner = "hook" THEN AddMessages(messages, r.calls)
                         ELSE messages
          /\ outcomes' = outcomes \cup
               {Outcome("filter", d.reg, d.idx, TRUE, r.path, Len(r.calls))}
     ELSE /\ UNCHANGED <<isEncryptionEnabled, messages>>
          /\ outcomes' = outcomes \cup
               {Outcome("filter", d.reg, d.idx, FALSE, "dropped-by-decoder", 0)}
  /\ UNCHANGED <<encryptionType, eciesKeys, symmetricKey, filterRegs, wire,
                 lastResult>>
  /\ UNCHANGED <<hookVars, subVars, unsubVars, queryVars>>

\* throwing: what a subscriber's callback other than the hook's may do (the
\* hook's own callback only calls setMessages and never throws).
DeliverLive(throwing) ==
  \E d \in pending, now \in Clock :
     \E throws1, throws2 \in
          (IF RegOf(d.reg).owner = "hook" THEN {FALSE} ELSE throwing) :
        Deliver(d, now, throws1, throws2)

-----------------------------------------------------------------------------
(***************************************************************************)
(* queryHistory (lines 294-406) and the hook's queryHistoricalMessages.    *)
(***************************************************************************)
\* The record callback (lines 318-394) on the message h the decoder handed
\* over: the entries pushed to processedMessages, the path, and
\* isEncryptionEnabled when it returns.
OrElse(ts, now) == IF ts # 0 THEN ts ELSE now

HistoryHandler(h, chan, idx, now) ==
  IF ~h.hasPayload
  THEN [calls |-> << >>, path |-> "nopayload", enabled |-> isEncryptionEnabled]
  ELSE
    LET d == decodeMessage(h.payload)
        m1 == Metadata(d.msg, OrElse(d.msg.timestamp, now),
                       MessageId("store", chan, idx, 1), now, "store",
                       isEncryptionEnabled, encryptionType)
    IN
    IF d.ok
    THEN [calls |-> << m1 >>, path |-> "decoded", enabled |-> isEncryptionEnabled]
    ELSE IF ~isEncryptionEnabled
         THEN [calls |-> << >>, path |-> "undecodable",
               enabled |-> isEncryptionEnabled]
         ELSE
           LET wasEnabled == isEncryptionEnabled
               originalType == encryptionType
               toggled == ~isEncryptionEnabled
               d2 == decodeMessage(h.payload)
               m2 == Metadata(d2.msg, OrElse(d2.msg.timestamp, now),
                              MessageId("store", chan, idx, 2), now, "store",
                              FALSE, originalType)
           IN IF d2.ok
              THEN [calls |-> << m2 >>, path |-> "fallback",
                    enabled |-> RestoreAfterSuccess(wasEnabled, toggled)]
              ELSE [calls |-> << >>, path |-> "undecodable",
                    enabled |-> RestoreAfterFailure(toggled)]

IdleQuery == [pc |-> "idle", decoder |-> PlainCodec, pos |-> 0, last |-> 0,
              acc |-> << >>]

notQuery == <<subscriptions, filterRegs, wire, pending, mounted, connected,
              cleanupArmed, subscriptionIdRef, hasInitializedRef, timer, messages,
              subCalls, unsubCalls, allPass, subsIssued, nextUuid, nextReg,
              teardowns, showHistorical>>

\* queryHistoricalMessages up to its 2-second wait.
QueryStart ==
  /\ connected
  /\ query.pc \notin {"delay", "running"}      \* isQueryingRef
  /\ queriesIssued < MaxQueries
  /\ query' = [IdleQuery EXCEPT !.pc = "delay"]
  /\ queriesIssued' = queriesIssued + 1
  /\ UNCHANGED <<historicalMessages, hasQueried, outcomes, lastResult>>
  /\ UNCHANGED encVars
  /\ UNCHANGED notQuery

\* After the wait: node.store is missing (the hook throws its own error), or
\* queryHistory creates the decoder from the settings of this moment and
\* calls node.store.queryWithOrderedCallback.
QueryOpen(storeAvailable) ==
  /\ query.pc = "delay"
  /\ IF storeAvailable
     THEN /\ query' = [query EXCEPT !.pc = "running", !.decoder = createDecoder,
                                    !.pos = 1, !.last = Len(wire)]
          /\ UNCHANGED lastResult
     ELSE /\ query' = IdleQuery
          /\ lastResult' = [op |-> "query", id |-> queriesIssued,
                            result |-> "protocol-error"]
  /\ UNCHANGED <<historicalMessages, hasQueried, queriesIssued, outcomes>>
  /\ UNCHANGED encVars
  /\ UNCHANGED notQuery

\* The store hands the next retained record to the record callback.
QueryRecord ==
  /\ query.pc = "running"
  /\ query.pos <= query.last
  /\ \E now \in Clock :
       LET h == fromProtoObj(query.decoder, wire[query.pos])
           r == HistoryHandler(h, queriesIssued, query.pos, now)
       IN IF h.handed
          THEN /\ isEncryptionEnabled' = r.enabled
               /\ query' = [query EXCEPT !.pos = @ + 1, !.acc = @ \o r.calls]
               /\ outcomes' = outcomes \cup
                    {Outcome("store", queriesIssued, query.pos, TRUE, r.path,
                             Len(r.calls))}
          ELSE /\ UNCHANGED isEncryptionEnabled
               /\ query' = [query EXCEPT !.pos = @ + 1]
               /\ outcomes' = outcomes \cup
                    {Outcome("store", queriesIssued, query.pos, FALSE,
                             "dropped-by-decoder", 0)}
  /\ UNCHANGED <<encryptionType, eciesKeys, symmetricKey>>
  /\ UNCHANGED <<historicalMessages, hasQueried, queriesIssued, lastResult>>
  /\ UNCHANGED notQuery

\* What queryHistory does when node.store.queryWithOrderedCallback ends.
\* threw = FALSE: it resolved after the last record.  threw = TRUE: it threw,
\* before any record (the channel could not be opened) or between two; the
\* catch of lines 396-398 logs it.  Either way processedMessages is returned
\* and the hook stores it and sets hasQueried.
queryHistoryReturn(threw) ==
  [op |-> "query", id |-> queriesIssued, result |-> "returned"]

QueryEnd(threw) ==
  /\ query.pc = "running"
  /\ threw \/ query.pos > query.last
  /\ LET ret == queryHistoryReturn(threw) IN
     /\ lastResult' = ret
     /\ IF ret.result = "returned"
        THEN historicalMessages' = query.acc /\ hasQueried' = TRUE
        ELSE UNCHANGED <<historicalMessages, hasQueried>>
  /\ query' = [IdleQuery EXCEPT !.pos = query.pos, !.last = query.last,
                                !.acc = query.acc, !.decoder = query.decoder,
                                !.pc = IF threw THEN "channel-threw" ELSE "done"]
  /\ UNCHANGED <<queriesIssued, outcomes>>
  /\ UNCHANGED encVars
  /\ UNCHANGED notQuery

QueryCompletes == QueryEnd(FALSE)
QueryChannelThrows == QueryEnd(TRUE)

-----------------------------------------------------------------------------
(***************************************************************************)
(* The MessageList component: the merged view of the two hooks' lists, the *)
(* show-historical switch and Clear All.                                   *)
(***************************************************************************)
\* messagesMap.set(message.id, message): a Map keeps a key at the position of
\* its first set and holds the value of its last set.
MapSetById(map, message) ==
  IF \E i \in 1 .. Len(map) : map[i].id = message.id
  THEN [i \in 1 .. Len(map) |-> IF map[i].id = message.id THEN message ELSE map[i]]
  ELSE Append(map, message)

\* forEach(message => messagesMap.set(...)) followed by Array.from(values()).
RECURSIVE messagesMap(_, _)
messagesMap(list, map) ==
  IF list = << >> THEN map
  ELSE messagesMap(Tail(list), MapSetById(map, Head(list)))

\* .sort((a, b) => a.timestamp - b.timestamp): a stable sort, built here by
\* inserting each element behind those that do not compare greater.
InsertByTimestamp(sorted, m) ==
  LET k == Cardinality({i \in 1 .. Len(sorted) :
                          sorted[i].timestamp <= m.timestamp})
  IN SubSeq(sorted, 1, k) \o << m >> \o SubSeq(sorted, k + 1, Len(sorted))

RECURSIVE SortFrom(_, _)
SortFrom(list, sorted) ==
  IF list = << >> THEN sorted
  ELSE SortFrom(Tail(list), InsertByTimestamp(sorted, Head(list)))

SortByTimestampSkipped(list) == list
SortByTimestamp(list) == SortFrom(list, << >>)

\* The merge effect (part_004 lines 31-45).
mergedMessagesAlwaysAll(live, historical, show) ==
  SortByTimestamp(messagesMap(live \o historical, << >>))
mergedMessages(live, historical, show) ==
  SortByTimestamp(
    messagesMap(live \o (IF show THEN historical ELSE << >>), << >>))

\* allMessages: the effect runs after every render in which messages,
\* historicalMessages or showHistorical changed.
allMessages == mergedMessages(messages, historicalMessages, showHistorical)

\* The toggle button, rendered once a query has been made; lastResult notes
\* the position it was put in.
ToggleHistorical ==
  /\ hasQueried
  /\ showHistorical' = ~showHistorical
  /\ lastResult' = [op |-> "toggle", id |-> 0,
                    result |-> IF showHistorical THEN "off" ELSE "on"]
  /\ UNCHANGED <<query, historicalMessages, hasQueried, queriesIssued>>
  /\ UNCHANGED <<encVars, nodeVars, hookVars, subVars, unsubVars>>
  /\ UNCHANGED <<messages, outcomes>>

\* clearMessages() and clearHistoricalMessages().
clearMessages == messages' = << >>
clearHistoricalMessagesFlagOnly ==
  /\ hasQueried' = FALSE
  /\ UNCHANGED historicalMessages
clearHistoricalMessages ==
  /\ historicalMessages' = << >>
  /\ hasQueried' = FALSE

\* handleClearAll, behind the Clear All button (rendered while the merged
\* view is not empty); lastResult notes that it ran.
ClearAll ==
  /\ allMessages # << >>
  /\ clearMessages
  /\ clearHistoricalMessages
  /\ lastResult' = [op |-> "clear", id |-> 0, result |-> "done"]
  /\ UNCHANGED <<query, queriesIssued, showHistorical>>
  /\ UNCHANGED <<encVars, nodeVars, hookVars, subVars, unsubVars>>
  /\ UNCHANGED outcomes

-----------------------------------------------------------------------------
(***************************************************************************)
(* The state after construction: encryption disabled, type ECIES, no keys; *)
(* an empty subscriptions Map; the hook mounted with no node yet.          *)
(***************************************************************************)
ConstructedEncryption ==
  /\ isEncryptionEnabled = FALSE
  /\ encryptionType = "ecies"
  /\ eciesKeys = [privateKey |-> Null, publicKey |-> Null, peerPublicKey |-> Null]
  /\ symmetricKey = Null

ConstructedManager ==
  /\ subscriptions = << >>
  /\ filterRegs = {}
  /\ wire = << >>
  /\ pending = {}
  /\ mounted = TRUE
  /\ subscriptionIdRef = 0
  /\ hasInitializedRef = FALSE
  /\ subCalls = << >>
  /\ unsubCalls = << >>
  /\ allPass = IdlePass
  /\ query = IdleQuery
  /\ subsIssued = 0
  /\ nextUuid = 1
  /\ nextReg = 1
  /\ queriesIssued = 0
  /\ outcomes = {}
  /\ teardowns = [id \in Ids |-> [invoked |-> 0, threw |-> 0]]
  /\ lastResult = [op |-> "none", id |-> 0, result |-> "none"]

\* The hooks' lists and the MessageList switch as useState initializes them.
NoMessages ==
  /\ messages = << >>
  /\ historicalMessages = << >>
  /\ hasQueried = FALSE
  /\ showHistorical = TRUE

ConstructedMessaging == ConstructedManager /\ NoMessages

\* The useMessages effect has not run with a connected node.
Disconnected ==
  /\ connected = FALSE
  /\ cleanupArmed = FALSE
  /\ timer = FALSE

Init == ConstructedEncryption /\ ConstructedMessaging /\ Disconnected

\* Direct calls of the exported encryptionManager's encryptMessage /
\* decryptMessage; lastResult keeps what the call returned.
EncryptCall ==
  /\ \E t \in Texts :
       LET r == encryptMessage(t) IN
       lastResult' = [op |-> "encrypt", id |-> 0, result |-> r.status,
                      input |-> t, data |-> r.data]
  /\ UNCHANGED <<subscriptions, filterRegs, wire, pending, mounted, connected,
                 cleanupArmed, subscriptionIdRef, hasInitializedRef, timer,
                 messages, subCalls, unsubCalls, allPass, query,
                 historicalMessages, hasQueried, subsIssued, nextUuid, nextReg,
                 queriesIssued, outcomes, teardowns, showHistorical>>
  /\ UNCHANGED encVars

DecryptCall ==
  /\ \E d \in CryptoData :
       LET r == decryptMessage(d) IN
       lastResult' = [op |-> "decrypt", id |-> 0, result |-> r.kind,
                      input |-> d, data |-> r]
  /\ UNCHANGED <<subscriptions, filterRegs, wire, pending, mounted, connected,
                 cleanupArmed, subscriptionIdRef, hasInitializedRef, timer,
                 messages, subCalls, unsubCalls, allPass, query,
                 historicalMessages, hasQueried, subsIssued, nextUuid, nextReg,
                 queriesIssued, outcomes, teardowns, showHistorical>>
  /\ UNCHANGED encVars

\* Direct calls of the exported messageManager's encodeMessage and
\* decodeMessage: a message is encoded, and the bytes an encode returned (or
\* those bytes cut short) are decoded; lastResult keeps what the call
\* returned: the decoded fields, and as what the timestamp field came back.
CodecTimestamps == {0, 1, 100, 200, 300}
CodecSenders == {"", "alice", "bob"}
CodecBodies == {"", "hi", "yo", "alice"}
CodecMessages ==
  [timestamp : CodecTimestamps, sender : CodecSenders, message : CodecBodies]

notCodec == <<subscriptions, filterRegs, wire, pending, mounted, connected,
              cleanupArmed, subscriptionIdRef, hasInitializedRef, timer,
              messages, subCalls, unsubCalls, allPass, query,
              historicalMessages, hasQueried, subsIssued, nextUuid, nextReg,
              queriesIssued, outcomes, teardowns, showHistorical>>

EncodeCall ==
  /\ \E m \in CodecMessages :
       lastResult' = [op |-> "encode", id |-> 0, result |-> "ok",
                      input |-> m, data |-> encodeMessage(m)]
  /\ UNCHANGED notCodec
  /\ UNCHANGED encVars

DecodeCall ==
  /\ lastResult.op = "encode"
  /\ \E cut \in BOOLEAN, reader \in Uint64Readers :
       LET bytes == IF cut THEN Truncated(lastResult.input) ELSE lastResult.data
           r == decodeMessage(bytes)
       IN lastResult' = [op |-> "decode", id |-> 0,
                         result |-> IF r.ok THEN "ok" ELSE "throws",
                         input |-> lastResult.input, cut |-> cut,
                         data |-> r.msg, timestampAs |-> reader]
  /\ UNCHANGED notCodec
  /\ UNCHANGED encVars

Next ==
  \/ ToggleEncryption
  \/ SetEncryptionType
  \/ GenerateKeys
  \/ ImportPublicKey
  \/ ImportSymmetricKey
  \/ EncryptCall
  \/ DecryptCall
  \/ ConnectionChange
  \/ NodeChange
  \/ Unmount
  \/ TimerFire
  \/ ApiSubscribe
  \/ SubscribeSucceeds
  \/ SubscribeFails
  \/ \E id \in 1 .. (nextUuid - 1) : ApiUnsubscribe(id)
  \/ ApiUnsubscribeAll
  \/ UnsubscribeSucceeds
  \/ UnsubscribeThrows
  \/ SendMessage(SendClock)
  \/ RemotePublish(RemoteRecords)
  \/ DeliverLive(BOOLEAN)
  \/ QueryStart
  \/ \E avail \in BOOLEAN : QueryOpen(avail)
  \/ QueryRecord
  \/ QueryCompletes
  \/ QueryChannelThrows
  \/ ToggleHistorical
  \/ ClearAll
  \/ EncodeCall
  \/ DecodeCall

Spec == Init /\ [][Next]_vars

-----------------------------------------------------------------------------
(***************************************************************************)
(* Component specifications.  Each starts in states the program reaches    *)
(* from Init and takes a subset of the actions of Next with inputs from    *)
(* the sets named, so each of its behaviours is the tail of a behaviour of *)
(* the program.                                                            *)
(***************************************************************************)

\* The encryption configurations the user actions reach from the constructed
\* one: generateKeys sets privateKey and publicKey together.
EncConfigs ==
  [enabled : BOOLEAN, type : EncryptionTypes, own : {Null, "own"},
   peer : {Null} \cup EciesPairs, sym : {Null} \cup SymKeys]

Configured ==
  \E c \in EncConfigs :
    /\ isEncryptionEnabled = c.enabled
    /\ encryptionType = c.type
    /\ eciesKeys = [privateKey |-> c.own, publicKey |-> c.own,
                    peerPublicKey |-> c.peer]
    /\ symmetricKey = c.sym

\* The state ConnectionChange leaves Init in: isConnected true, the effect has
\* armed its initialization timer and returned its cleanup.
Connected ==
  /\ connected = TRUE
  /\ cleanupArmed = TRUE
  /\ timer = TRUE

\* The encryption configuration and the two direct calls.
NextEncryption ==
  \/ ToggleEncryption
  \/ SetEncryptionType
  \/ GenerateKeys
  \/ ImportPublicKey
  \/ ImportSymmetricKey
  \/ EncryptCall
  \/ DecryptCall

SpecEncryption == Init /\ [][NextEncryption]_vars

\* The codec alone.
NextCodec ==
  \/ EncodeCall
  \/ DecodeCall

SpecCodec == Init /\ [][NextCodec]_vars

\* The subscriptions Map: the hook's effect, subscribe / unsubscribe /
\* unsubscribe-all through the API; nothing is published.
NextRegistry ==
  \/ ConnectionChange
  \/ NodeChange
  \/ Unmount
  \/ TimerFire
  \/ ApiSubscribe
  \/ SubscribeSucceeds
  \/ SubscribeFails
  \/ \E id \in 1 .. (nextUuid - 1) : ApiUnsubscribe(id)
  \/ ApiUnsubscribeAll
  \/ UnsubscribeSucceeds
  \/ UnsubscribeThrows

SpecRegistry == Init /\ [][NextRegistry]_vars

\* The API used by one caller that awaits each unsubscribeFromMessages before
\* it calls again.
SequentialUnsubscribe ==
  /\ unsubCalls = << >>
  /\ \E id \in 1 .. (nextUuid - 1) : ApiUnsubscribe(id)

NextSequence ==
  \/ ApiSubscribe
  \/ SubscribeSucceeds
  \/ SubscribeFails
  \/ SequentialUnsubscribe
  \/ UnsubscribeSucceeds
  \/ UnsubscribeThrows

SpecSequence == Init /\ [][NextSequence]_vars

\* Subscribers and what they receive: the hook's effect and a second caller
\* of subscribeToMessages, sends and live deliveries.
NextSubscriber ==
  \/ ConnectionChange
  \/ NodeChange
  \/ Unmount
  \/ TimerFire
  \/ ApiSubscribe
  \/ SubscribeSucceeds
  \/ SubscribeFails
  \/ UnsubscribeSucceeds
  \/ UnsubscribeThrows
  \/ SendMessage({100})
  \/ DeliverLive({FALSE})

SpecSubscriber == Init /\ [][NextSubscriber]_vars

\* Records for the delivery specifications: in the clear (decodable, cut
\* short, without payload) and sealed (to this side's ECIES pair, under the
\* symmetric key "sym").
Hello == [timestamp |-> 100, sender |-> "alice", message |-> "hi"]
DeliveryRecords ==
  {WireRecord(PlainCodec, encodeMessage(Hello)),
   WireRecord(PlainCodec, Truncated(Hello)),
   NoPayloadRecord,
   WireRecord([kind |-> "ecies", key |-> "own"], encodeMessage(Hello)),
   WireRecord([kind |-> "symmetric", key |-> "sym"], encodeMessage(Hello))}

\* Live delivery under every encryption configuration: subscribers through
\* the API (whose callbacks may throw), records of other participants, and
\* the enable switch.
NextDelivery ==
  \/ ToggleEncryption
  \/ ApiSubscribe
  \/ SubscribeSucceeds
  \/ SubscribeFails
  \/ RemotePublish(DeliveryRecords)
  \/ DeliverLive(BOOLEAN)

InitDelivery == Configured /\ ConstructedMessaging /\ Disconnected

SpecDelivery == InitDelivery /\ [][NextDelivery]_vars

\* History retrieval under every encryption configuration, on a connected
\* node whose store retains the records other participants publish.
NextHistory ==
  \/ ToggleEncryption
  \/ RemotePublish(DeliveryRecords)
  \/ QueryStart
  \/ \E avail \in BOOLEAN : QueryOpen(avail)
  \/ QueryRecord
  \/ QueryCompletes
  \/ QueryChannelThrows

InitConnected == Configured /\ ConstructedMessaging /\ Connected

SpecHistory == InitConnected /\ [][NextHistory]_vars

\* Both receiving paths side by side under every encryption configuration:
\* subscribers through the API, records in the clear, live deliveries and a
\* history query that runs to its end.
PlainRecords ==
  {WireRecord(PlainCodec, encodeMessage(Hello)),
   WireRecord(PlainCodec, Truncated(Hello)),
   NoPayloadRecord}

NextReceive ==
  \/ ApiSubscribe
  \/ SubscribeSucceeds
  \/ RemotePublish(PlainRecords)
  \/ DeliverLive({FALSE})
  \/ QueryStart
  \/ QueryOpen(TRUE)
  \/ QueryRecord
  \/ QueryCompletes

SpecReceive == InitConnected /\ [][NextReceive]_vars

\* The message list with encryption disabled on a connected node: the hook's
\* subscription, records in the clear stamped 100 and 200, live deliveries,
\* one history query, the show-historical switch and Clear All.
Earlier == [timestamp |-> 100, sender |-> "alice", message |-> "hi"]
Later == [timestamp |-> 200, sender |-> "alice", message |-> "hi"]
ListRecords ==
  {WireRecord(PlainCodec, encodeMessage(Earlier)),
   WireRecord(PlainCodec, encodeMessage(Later))}

NextList ==
  \/ TimerFire
  \/ SubscribeSucceeds
  \/ RemotePublish(ListRecords)
  \/ DeliverLive({FALSE})
  \/ QueryStart
  \/ QueryOpen(TRUE)
  \/ QueryRecord
  \/ QueryCompletes
  \/ ToggleHistorical
  \/ ClearAll

InitList == ConstructedEncryption /\ ConstructedMessaging /\ Connected

SpecList == InitList /\ [][NextList]_vars

\* A chat with encryption disabled on a connected node: the hook's
\* subscription and a second subscriber, sends by two senders,
\* and live deliveries.  The filter peer pushes every record it owes a
\* registration and the callback runs to completion, so a delivery that is
\* due does happen.
Chatters == {"alice", "bob"}
ChatTexts == {"hi"}

NextChat ==
  \/ TimerFire
  \/ ApiSubscribe
  \/ SubscribeSucceeds
  \/ SendFrom(Chatters, ChatTexts, {100})
  \/ DeliverLive({FALSE})

SpecChat ==
  InitList /\ [][NextChat]_vars /\ WF_vars(DeliverLive({FALSE}))

\* The merge effect as a function of the lists the two hooks hand it.  An id
\* is whatever uuidv4() returned when the entry was made; the lists drawn
\* here include those in which two draws returned the same value.  The live
\* list holds no id twice (the hook's callback skips an id it already has).
MaxListLen == 2
ListIds == {"a", "b"}
ListEntry(id, ts, source) ==
  Metadata([timestamp |-> ts, sender |-> "alice", message |-> "hi"], ts, id,
           300, source, FALSE, "ecies")
ListEntries(source) == {ListEntry(id, ts, source) : id \in ListIds, ts \in {100, 200}}
ListsOf(entries) ==
  UNION {[1 .. n -> entries] : n \in 0 .. MaxListLen}
LiveLists ==
  {l \in ListsOf(ListEntries("filter")) :
     \A i, j \in 1 .. Len(l) : l[i].id = l[j].id => i = j}
HistoricalLists == ListsOf(ListEntries("store"))

\* History has been queried and switched off.
ListsGiven ==
  \E l \in LiveLists, h \in HistoricalLists :
    /\ messages = l
    /\ historicalMessages = h
    /\ hasQueried = TRUE
    /\ showHistorical = FALSE

NextMerge ==
  \/ ToggleHistorical
  \/ ClearAll

InitMerge == ConstructedEncryption /\ ConstructedManager /\ ListsGiven /\ Connected

SpecMerge == InitMerge /\ [][NextMerge]_vars

-----------------------------------------------------------------------------
(***************************************************************************)
(* Properties.                                                             *)
(***************************************************************************)
RECURSIVE SumCalls(_)
SumCalls(os) ==
  IF os = {} THEN 0
  ELSE LET o == CHOOSE x \in os : TRUE IN o.calls + SumCalls(os \ {o})

\* Callback invocations the live path made for the record at position idx,
\* over all subscribers.
LiveCalls(idx) == SumCalls({o \in outcomes : o.source = "filter" /\ o.idx = idx})

\* C1: a second subscribe while one subscription is active creates no second
\* delivery path: whatever the interleaving of subscribe calls, effect re-runs
\* and deliveries, a record on the topic reaches the subscribers' callbacks
\* at most once.
C1_DeliveredAtMostOnce ==
  \A idx \in 1 .. Len(wire) : LiveCalls(idx) <= 1

\* The same for the hook instance alone: its message list shows a record once.
HookShowsRecordOnce ==
  \A i, j \in 1 .. Len(messages) :
    messages[i].id.idx = messages[j].id.idx => i = j


\* Calls of unsubscribeFromMessages(id) awaiting the underlying unsubscribe,
\* and whether id was handed out and is no longer in the Map.
InFlight(id) == Cardinality({i \in 1 .. Len(unsubCalls) : unsubCalls[i].id = id})
Removed(id) == id < nextUuid /\ ~MapHas(subscriptions, id)

\* C2 (as stated): unsubscribeFromMessages(id) called twice in sequence
\* invokes the underlying unsubscribe exactly once: under sequential calls no
\* id ever has its underlying unsubscribe invoked a second time.
C2_TeardownOnce ==
  \A id \in Ids : teardowns[id].invoked <= 1

\* C2 (amended): under sequential calls, the underlying unsubscribe of an id
\* is invoked once per call that finds the entry; a call whose underlying
\* unsubscribe throws leaves the entry (the next call invokes it again), the
\* one that succeeds removes it, and every call after that finds no entry,
\* invokes nothing and returns without throwing.
C2_TeardownOncePerSuccess ==
  \A id \in Ids :
    /\ InFlight(id) <= 1
    /\ teardowns[id].invoked =
         teardowns[id].threw + InFlight(id) + (IF Removed(id) THEN 1 ELSE 0)
    /\ (lastResult.op = "unsubscribe" /\ lastResult.id = id) =>
         /\ lastResult.result = "notfound" => Removed(id) /\ InFlight(id) = 0
         /\ lastResult.result = "throws" => ~Removed(id)
         /\ lastResult.result = "ok" => Removed(id)

\* C2 witness: a first call succeeded and a second call found no entry: one
\* invocation, none thrown, the entry gone.
C2_SecondCallFoundNothing ==
  \E id \in Ids :
    /\ lastResult = [op |-> "unsubscribe", id |-> id, result |-> "notfound"]
    /\ teardowns[id] = [invoked |-> 1, threw |-> 0]
    /\ Removed(id)


\* C3: unsubscribeFromAllMessages attempts the teardown of every tracked
\* subscription even when the teardown of one entry fails: a pass that has
\* ended, normally or by a rethrown error, has attempted every id it
\* snapshotted.
C3_PassAttemptsEveryEntry ==
  allPass.status \in {"done", "threw"} =>
    allPass.attempted = Range(allPass.ids)


\* The registrations the Map's entries hold.
EntryRegs == {subscriptions[i].reg : i \in 1 .. Len(subscriptions)}

\* In every state: ids and registrations of the entries are pairwise
\* distinct, the entries hold exactly the registrations live in the filter,
\* every id in use was handed out by an earlier successful subscribe, and
\* one id was drawn per registration made.
RegistryMatchesLiveRegistrations ==
  /\ Cardinality(Keys(subscriptions)) = Len(subscriptions)
  /\ Cardinality(EntryRegs) = Len(subscriptions)
  /\ EntryRegs = RegIds
  /\ Keys(subscriptions) \subseteq 1 .. (nextUuid - 1)
  /\ nextUuid = nextReg

\* In every step that settles a subscribe call: a successful one appends one
\* entry under an id not handed out before, a failing one changes neither
\* the Map nor the filter.
SubscribeSettlesExactly ==
  Len(subCalls') < Len(subCalls) =>
    \/ /\ lastResult' = [op |-> "subscribe", id |-> nextUuid, result |-> "ok"]
       /\ subscriptions' = Append(subscriptions, [id |-> nextUuid, reg |-> nextReg])
       /\ nextUuid' = nextUuid + 1
    \/ /\ lastResult' = [op |-> "subscribe", id |-> 0, result |-> "throws"]
       /\ subscriptions' = subscriptions
       /\ filterRegs' = filterRegs
       /\ nextUuid' = nextUuid

\* C4: after any sequence of subscribe and unsubscribe calls the registry
\* holds exactly one entry, under a fresh id, for each successful subscribe
\* not yet unsubscribed; a failing subscribe adds no entry; no two entries
\* reference the same live registration.
C4_OneEntryPerLiveSubscription ==
  [] RegistryMatchesLiveRegistrations /\ [][SubscribeSettlesExactly]_vars

\* C4 witness: two subscribes succeeded, the first has been unsubscribed, the
\* second is the one entry left.
C4_OneLeftAfterUnsubscribe ==
  /\ nextUuid = 3
  /\ subCalls = << >>
  /\ Keys(subscriptions) = {2}
  /\ RegIds = {2}
  /\ unsubCalls = << >>


\* Bytes that are the encoding of a chat message.
WellFormed(bytes) == \E m \in ChatMessages : bytes = encodeMessage(m)

\* A record sent in the clear with a chat message as payload.
PlaintextRecord(rec) ==
  rec.enc = "plain" /\ rec.hasPayload /\ WellFormed(rec.bytes)

\* C5: with encryption Enabled and Ready on the receiving side, a record that
\* was sent in the clear is still decoded and delivered, on the live path
\* (the callback is invoked) and on the historical one (an entry is
\* returned).
C5_PlaintextRecovered ==
  \A o \in outcomes :
    (o.enabled /\ o.ready /\ PlaintextRecord(wire[o.idx])) => o.calls >= 1

\* The same for a direct call of decryptMessage on bytes in the clear.
DecryptRecoversPlaintext ==
  (isEncryptionEnabled /\ isEncryptionReady) =>
    \A t \in Texts : decryptMessage(ClearData(t)) = Recovered(t)

\* What encryptMessage does with a text, and what the encoder of the send
\* path does with a payload, under the current settings.
EncryptPolicy(t) ==
  LET r == encryptMessage(t) IN
  IF r.status = "throws" THEN "fail"
  ELSE IF r.data.enc = "none" THEN "plaintext" ELSE "encrypted"
EncoderPolicy ==
  IF createEncoder.kind = "plain" THEN "plaintext" ELSE "encrypted"

\* C6: while encryption is Enabled but not Ready, encryptMessage and the
\* encoder of the send path (createEncoder) apply one policy: both fail, or
\* both fall back to plaintext.
C6_OnePolicyWhenNotReady ==
  (isEncryptionEnabled /\ ~isEncryptionReady) =>
    \A t \in Texts : EncryptPolicy(t) = EncoderPolicy

\* C7: every wire record the transport delivers, live or historical, yields
\* exactly one accounted outcome at the caller: the decoded message or an
\* explicit undecodable marker; none is dropped with nothing handed over.
C7_EveryRecordAccounted ==
  \A o \in outcomes : (o.handed /\ wire[o.idx].hasPayload) => o.calls = 1


\* A step in which the filter delivers one record to one registration.
LiveDeliveryStep ==
  /\ wire' = wire
  /\ \E d \in pending : pending' = pending \ {d}

\* Whatever the handler did with the record, the step leaves the registry,
\* the filter registrations and the enable switch as they were.
DeliveryKeepsSubscription ==
  LiveDeliveryStep =>
    /\ subscriptions' = subscriptions
    /\ filterRegs' = filterRegs
    /\ isEncryptionEnabled' = isEncryptionEnabled

\* Every record a registration's decoder handed over with a chat message as
\* payload reached the callback, whatever was delivered before it.
DecodableReachesCallback ==
  \A o \in outcomes :
    (o.source = "filter" /\ o.handed) =>
      LET h == fromProtoObj(RegOf(o.chan).decoder, wire[o.idx]) IN
      (h.hasPayload /\ WellFormed(h.payload)) => o.calls >= 1

\* C8: a live record that fails to decode or fails processing does not tear
\* down the subscription: the registry entry remains and later decodable
\* records still reach the callback.
C8_FailureKeepsSubscription ==
  [][DeliveryKeepsSubscription]_vars /\ [] DecodableReachesCallback

\* C8 witness: a registration still in the registry received a record that
\* failed (undecodable, or the callback threw) and, after it, a record that
\* was decoded and passed to the callback.
C8_DeliveredAfterFailure ==
  \E o1, o2 \in outcomes :
    /\ o1.source = "filter" /\ o2.source = "filter"
    /\ o1.chan = o2.chan /\ o1.idx < o2.idx
    /\ o1.path \in {"undecodable", "callback-threw"}
    /\ o2.path = "decoded" /\ o2.calls = 1
    /\ o1.chan \in EntryRegs


\* A stored record the query's decoder hands over with a chat message as
\* payload.
Decodes(decoder, rec) ==
  LET h == fromProtoObj(decoder, rec) IN
  h.handed /\ h.hasPayload /\ WellFormed(h.payload)

\* The query has ended: normally, or by a throw of the store query.
QueryEnded == query.pc \in {"done", "channel-threw"}

\* C9: queryHistory returns exactly one entry per stored record that decodes
\* and skips each record that does not: the list the caller holds after the
\* call has as many entries as there were decodable records in the store
\* when the query was opened.
C9_OneEntryPerDecodableRecord ==
  QueryEnded =>
    Len(historicalMessages) =
      Cardinality({i \in 1 .. query.last : Decodes(query.decoder, wire[i])})

\* C10: a store query that throws is surfaced to the caller as an explicit
\* failure, not as a normal result: the call does not return a list and the
\* hook does not mark the history as queried.
C10_StoreThrowSurfaced ==
  query.pc = "channel-threw" =>
    /\ lastResult.op = "query" => lastResult.result # "returned"
    /\ ~hasQueried

\* A query that ran to its end holds one entry per decodable record.
CompletedQueryIsExact ==
  query.pc = "done" =>
    Len(historicalMessages) =
      Cardinality({i \in 1 .. query.last : Decodes(query.decoder, wire[i])})

-----------------------------------------------------------------------------
(***************************************************************************)
(* The merged view.                                                        *)
(***************************************************************************)
Ascending(list) ==
  \A i, j \in 1 .. Len(list) : i < j => list[i].timestamp <= list[j].timestamp

\* C11: after any sequence of live deliveries, history queries, switches of
\* show-historical and clears, the merged view ascends by timestamp.  With
\* one live message stamped 200 and one historical message stamped 100 the
\* view is the historical message followed by the live one.
C11_MergedViewAscending ==
  /\ Ascending(allMessages)
  /\ (/\ Len(messages) = 1 /\ messages[1].timestamp = 200
      /\ Len(historicalMessages) = 1 /\ historicalMessages[1].timestamp = 100
      /\ showHistorical)
       => allMessages = << historicalMessages[1], messages[1] >>

\* The scenario of C11 has happened: the live list holds one message stamped
\* 200, the historical list one stamped 100, and the view shows both.
C11_LaterLiveEarlierHistorical ==
  /\ Len(messages) = 1 /\ messages[1].timestamp = 200
  /\ Len(historicalMessages) = 1 /\ historicalMessages[1].timestamp = 100
  /\ showHistorical
  /\ Len(allMessages) = 2

\* The lists the merge effect reads, live before historical.
MergeInput ==
  messages \o (IF showHistorical THEN historicalMessages ELSE << >>)

IdsOf(list) == {list[i].id : i \in 1 .. Len(list)}

FirstWithId(list, id) ==
  list[CHOOSE i \in 1 .. Len(list) :
         /\ list[i].id = id
         /\ \A j \in 1 .. (i - 1) : list[j].id # id]

NoIdTwice(list) ==
  \A i, j \in 1 .. Len(list) : list[i].id = list[j].id => i = j

LastWithId(list, id) ==
  list[CHOOSE i \in 1 .. Len(list) :
         /\ list[i].id = id
         /\ \A j \in (i + 1) .. Len(list) : list[j].id # id]

UnionByIdKeepsLast ==
  /\ NoIdTwice(allMessages)
  /\ IdsOf(allMessages) = IdsOf(MergeInput)
  /\ \A i \in 1 .. Len(allMessages) :
       allMessages[i] = LastWithId(MergeInput, allMessages[i].id)

\* A Clear All step empties both lists and leaves the subscription alone:
\* the registry, the filter registrations, the deliveries due and the hook's
\* refs are what they were.
ClearEmptiesBothLists ==
  ClearAll =>
    /\ messages' = << >>
    /\ historicalMessages' = << >>
    /\ subscriptions' = subscriptions
    /\ filterRegs' = filterRegs
    /\ pending' = pending
    /\ subscriptionIdRef' = subscriptionIdRef
    /\ hasInitializedRef' = hasInitializedRef

\* A step in which the filter delivers to the hook's registration a record
\* that decodes puts the message into the live list and the merged view.
ArrivalShown ==
  \A d \in pending :
    (/\ wire' = wire
     /\ pending' = pending \ {d}
     /\ RegOf(d.reg).owner = "hook"
     /\ Decodes(RegOf(d.reg).decoder, wire[d.idx]))
      => /\ \E i \in 1 .. Len(messages') : messages'[i].id.idx = d.idx
         /\ \E i \in 1 .. Len(allMessages') :
              allMessages'[i].id.idx = d.idx /\ allMessages'[i].source = "filter"

\* C13: Clear All empties the live and the historical list and leaves the
\* live subscription registered and delivering: a message that arrives after
\* a clear is added to the live list and appears in the merged view.
C13_ClearKeepsSubscriptionLive ==
  [][ClearEmptiesBothLists /\ ArrivalShown]_vars

\* After Clear All (no call has settled since) the hook's subscription is
\* still in the registry, and a message delivered since is in the live list
\* and in the merged view.
C13_ArrivedAfterClear ==
  /\ lastResult.op = "clear"
  /\ subscriptionIdRef # 0 /\ MapHas(subscriptions, subscriptionIdRef)
  /\ messages # << >>
  /\ \A i \in 1 .. Len(messages) :
       \E j \in 1 .. Len(allMessages) : allMessages[j] = messages[i]

EntriesOf(list) == {list[i] : i \in 1 .. Len(list)}

\* With inclusion off the view holds the live messages and nothing else.
OffShowsLive ==
  ~showHistorical =>
    /\ EntriesOf(allMessages) = EntriesOf(messages)
    /\ Len(allMessages) = Len(messages)

\* With inclusion on the view holds every historical message the hook has.
OnShowsHistorical ==
  showHistorical => EntriesOf(historicalMessages) \subseteq EntriesOf(allMessages)

\* A step that changes showHistorical changes neither list and starts no
\* query.
ToggleKeepsLists ==
  showHistorical' # showHistorical =>
    /\ messages' = messages
    /\ historicalMessages' = historicalMessages
    /\ hasQueried' = hasQueried
    /\ query' = query
    /\ queriesIssued' = queriesIssued

\* C14: toggling the inclusion of historical messages changes only the
\* merged view: with inclusion off the view holds exactly the live messages,
\* toggling it back on restores the historical messages without a new query,
\* and the two lists themselves are unchanged by the toggle.
C14_ToggleChangesOnlyView ==
  [] (OffShowsLive /\ OnShowsHistorical) /\ [][ToggleKeepsLists]_vars

\* Inclusion was switched off and then back on: the view again holds the
\* historical messages next to the live ones, and the one query made is the
\* one made before.
C14_HistoryRestoredByToggle ==
  /\ lastResult.op = "toggle" /\ lastResult.result = "on"
  /\ showHistorical
  /\ messages # << >> /\ historicalMessages # << >>
  /\ Len(allMessages) = Len(messages) + Len(historicalMessages)
  /\ queriesIssued = 1 /\ query.pc = "done"

-----------------------------------------------------------------------------
(***************************************************************************)
(* Sending.                                                                *)
(***************************************************************************)
\* The filter owes registration r the record at position idx.
Owed(r, idx) == [reg |-> r, idx |-> idx] \in pending

\* Registration r's callback was invoked for the record at position idx,
\* once, on the decoded path.
DeliveredOnce(r, idx) ==
  \E o \in outcomes :
    /\ o.source = "filter" /\ o.chan = r /\ o.idx = idx
    /\ o.handed /\ o.path = "decoded" /\ o.calls = 1

\* No registration's callback was invoked twice for a record, and the hook's
\* list holds one entry per record delivered to its registration.
NeverTwice ==
  /\ \A o \in outcomes : o.source = "filter" => o.calls <= 1
  /\ \A o1, o2 \in outcomes :
       (o1.source = "filter" /\ o2.source = "filter"
        /\ o1.chan = o2.chan /\ o1.idx = o2.idx) => o1 = o2
  /\ \A i, j \in 1 .. Len(messages) :
       (messages[i].id.chan = messages[j].id.chan
        /\ messages[i].id.idx = messages[j].id.idx) => i = j

\* What the hook's callback received for the record of the latest send is
\* tagged 'filter' and carries the sender and the text given to send.
DeliveredAsSent ==
  (lastResult.op = "send" /\ lastResult.result = "true") =>
    \A i \in 1 .. Len(messages) :
      messages[i].id.idx = lastResult.id =>
        /\ messages[i].source = "filter"
        /\ messages[i].message.sender = lastResult.sent.sender
        /\ messages[i].message.message = lastResult.sent.message

AtMostOnePush ==
  lastResult.op = "send" =>
    /\ lastResult.pushes <= 1
    /\ lastResult.pushes = 0 => (lastResult.id = 0 /\ lastResult.result = "false")

\* A step that settles a send while the node is not connected makes no push
\* attempt, returns false and leaves the topic as it was; a send puts at most
\* one record on the topic.
SendStep == lastResult'.op = "send" /\ lastResult' # lastResult

NoPushWhenUnavailable ==
  SendStep =>
    /\ Len(wire') <= Len(wire) + 1
    /\ ~connected =>
         /\ lastResult'.pushes = 0
         /\ lastResult'.result = "false"
         /\ wire' = wire /\ pending' = pending

\* C16: sendMessage makes at most one push attempt per call and never
\* retries; when the transport is unavailable (no node, or node not
\* connected) the send fails at once without any push attempt.
C16_OnePushNoRetry ==
  [] AtMostOnePush /\ [][NoPushWhenUnavailable]_vars

\* A send succeeded while the node was connected; after the connection was
\* lost another send was refused without a push attempt.
C16_RefusedWhenDisconnected ==
  /\ ~connected
  /\ lastResult.op = "send" /\ lastResult.pushes = 0
  /\ lastResult.result = "false"
  /\ Len(wire) = 1

\* A push that failed was not repeated: the send returned false after one
\* attempt.
C16_FailedPushNotRepeated ==
  /\ connected
  /\ lastResult.op = "send" /\ lastResult.pushes = 1
  /\ lastResult.result = "false" /\ lastResult.id = 0

\* Every send settled with a boolean for its caller: false whenever the push
\* threw, was never reached, or reported a failure or no success; true only
\* when the push reported a success and no failure, and then the record is on
\* the topic.
FailureIsReturned ==
  lastResult.op = "send" =>
    /\ lastResult.result \in {"true", "false"}
    /\ lastResult.result = "true" <=>
         (Successes(lastResult.push) >= 1 /\ Failures(lastResult.push) = 0)
    /\ lastResult.result = "true" => lastResult.id = Len(wire)

\* C17: sendMessage never throws: a failure of encoding, of encoder creation
\* or of the push is returned to the caller as a failure result, and success
\* is reported only when the push reported at least one success and no
\* failure.
C17_SendReturnsFailure == [] FailureIsReturned

\* A push that reported a success and a failure: the record is on the topic
\* and the caller was told false.
C17_PartialPushReportedFailed ==
  /\ lastResult.op = "send" /\ lastResult.push = "partial"
  /\ lastResult.result = "false"
  /\ lastResult.id = Len(wire) /\ Len(wire) >= 1

-----------------------------------------------------------------------------
(***************************************************************************)
(* Round trips.                                                            *)
(***************************************************************************)
\* C18: for every plaintext p and every encryption state that is enabled and
\* ready (ECIES with own key pair and peer public key, or symmetric with a
\* shared key), decryptMessage(encryptMessage(p)) returns p.
C18_DecryptOfEncrypt ==
  (isEncryptionEnabled /\ isEncryptionReady) =>
    \A p \in Texts :
      /\ encryptMessage(p).status = "ok"
      /\ decryptMessage(encryptMessage(p).data) = Recovered(p)

\* C18 as the code has it: with a symmetric key the round trip returns p;
\* with ECIES encryptMessage seals p to the peer's public key and
\* decryptMessage opens with this side's private key, so on one side the
\* round trip returns p exactly when the imported peer key is this side's
\* own public key, and a placeholder text otherwise.
C18_DecryptOfEncryptForHolder ==
  (isEncryptionEnabled /\ isEncryptionReady) =>
    \A p \in Texts :
      LET e == encryptMessage(p) IN
      /\ e.status = "ok"
      /\ encryptionType = "symmetric" =>
           /\ e.data = SealedData("symmetric", symmetricKey, p)
           /\ decryptMessage(e.data) = Recovered(p)
      /\ encryptionType = "ecies" =>
           /\ e.data = SealedData("ecies", eciesKeys.peerPublicKey, p)
           /\ IF eciesKeys.peerPublicKey = eciesKeys.privateKey
              THEN decryptMessage(e.data) = Recovered(p)
              ELSE decryptMessage(e.data) = Placeholder("Unable to decrypt")

\* decryptMessage was called on what encryptMessage returns under a ready
\* symmetric configuration and returned the plaintext.
C18_SymmetricRoundTripDone ==
  /\ isEncryptionEnabled /\ isEncryptionReady /\ encryptionType = "symmetric"
  /\ lastResult.op = "decrypt"
  /\ \E p \in Texts :
       /\ lastResult.input = encryptMessage(p).data
       /\ lastResult.data = Recovered(p)

DecodedValuesAsEncoded ==
  (lastResult.op = "decode" /\ ~lastResult.cut) =>
    /\ lastResult.result = "ok"
    /\ lastResult.data = lastResult.input

\* The round trip was made for a message whose sender is empty and whose
\* text is another message's sender, and the timestamp came back as a Long.
C19_RoundTripGaveLong ==
  /\ lastResult.op = "decode" /\ ~lastResult.cut
  /\ lastResult.input = [timestamp |-> 300, sender |-> "", message |-> "alice"]
  /\ lastResult.data = lastResult.input
  /\ lastResult.timestampAs = "Long"

\* C20: every encode and decode reads the encryption state at the moment it
\* is used: after the settings change, every inbound record processed
\* afterwards is handled under the new settings, also on a subscription that
\* was opened before the change.  For a delivery this says that the record
\* is opened (or dropped) as the decoder of the settings in force at the
\* delivery would, whatever the settings were when the subscription was made.
OpenedAsNow(d) ==
  fromProtoObj(RegOf(d.reg).decoder, wire[d.idx])
    = fromProtoObj(createDecoder, wire[d.idx])
C20_HandledUnderCurrentSettings ==
  [][\A d \in pending : d \notin pending' => OpenedAsNow(d)]_vars

-----------------------------------------------------------------------------
(***************************************************************************)
(* Display timestamps.                                                     *)
(***************************************************************************)
\* Receiving with encryption disabled on a connected node: the hook's
\* subscription, records in the clear of which one carries no timestamp
\* (the field is 0), live deliveries and a history query that runs to its end.
Unstamped == [timestamp |-> 0, sender |-> "alice", message |-> "hi"]
StampRecords ==
  {WireRecord(PlainCodec, encodeMessage(Earlier)),
   WireRecord(PlainCodec, encodeMessage(Unstamped))}

NextStamp ==
  \/ TimerFire
  \/ SubscribeSucceeds
  \/ RemotePublish(StampRecords)
  \/ DeliverLive({FALSE})
  \/ QueryStart
  \/ QueryOpen(TRUE)
  \/ QueryRecord
  \/ QueryCompletes

SpecStamp == InitList /\ [][NextStamp]_vars

DisplayTimestampOf(m) == OrElse(m.message.timestamp, m.receivedTime)

\* C21: for every annotated message, produced by live delivery or by a
\* historical query, the display timestamp equals the message's own timestamp
\* when that is present (non-zero) and the local receipt time otherwise.
C21_DisplayTimestamp ==
  \A m \in Range(messages) \cup Range(historicalMessages) \cup Range(query.acc) :
     m.timestamp = DisplayTimestampOf(m)

\* The historical path alone does what the claim says.
HistoricalDisplayTimestamp ==
  \A m \in Range(historicalMessages) \cup Range(query.acc) :
     m.timestamp = DisplayTimestampOf(m)

\* A history query returned an annotated message made from the record that
\* carries no timestamp.
UnstampedInHistory ==
  \E m \in Range(historicalMessages) : m.message.timestamp = 0

-----------------------------------------------------------------------------
(***************************************************************************)
(* The two switches of the encryption configuration.                       *)
(***************************************************************************)
\* C22: toggleEncryption flips only the enabled flag and leaves the scheme
\* and all keys unchanged; setting the encryption type changes only the
\* scheme and leaves the enabled flag and all keys unchanged.
C22_SwitchesAreIndependent ==
  [][/\ ToggleEncryption => isEncryptionEnabled' = ~isEncryptionEnabled
     /\ isEncryptionEnabled' # isEncryptionEnabled =>
          UNCHANGED <<encryptionType, eciesKeys, symmetricKey>>
     /\ SetEncryptionType => encryptionType' # encryptionType
     /\ encryptionType' # encryptionType =>
          UNCHANGED <<isEncryptionEnabled, eciesKeys, symmetricKey>>]_vars

\* Encryption was switched on after the symmetric scheme was selected and
\* keys of both schemes were generated: scheme and keys are still there.
C22_EnabledWithSchemeAndKeysKept ==
  /\ isEncryptionEnabled
  /\ encryptionType = "symmetric"
  /\ symmetricKey # Null
  /\ eciesKeys.privateKey # Null
  /\ eciesKeys.peerPublicKey # Null

-----------------------------------------------------------------------------
(***************************************************************************)
(* Validation of what is sent.                                             *)
(***************************************************************************)
\* The message form on a connected node with encryption disabled: senders
\* and texts as typed, blank ones among them, and the hook's subscription
\* receiving what was sent.
ComposeSenders == {"", " ", "alice"}
ComposeTexts == {"", "  ", "hi", "yo"}

NextCompose ==
  \/ TimerFire
  \/ SubscribeSucceeds
  \/ SendFrom(ComposeSenders, ComposeTexts, {100, 200})
  \/ DeliverLive({FALSE})

SpecCompose == InitList /\ [][NextCompose]_vars

\* C23: every ChatMessage that is encoded and pushed has a non-empty sender
\* and a non-empty body: a send whose sender or body is empty or
\* whitespace-only is rejected before any message is constructed, encoded or
\* pushed.
C23_NoBlankMessagePushed ==
  /\ \A i \in 1 .. Len(wire) :
        LET m == decodeMessage(wire[i].bytes).msg
        IN ~IsBlank(m.sender) /\ ~IsBlank(m.message)
  /\ (/\ lastResult.op = "send"
      /\ IsBlank(lastResult.sent.sender) \/ IsBlank(lastResult.sent.message))
       => /\ lastResult.result = "false"
          /\ lastResult.pushes = 0
          /\ lastResult.id = 0

\* After one message went out, a send with a whitespace-only sender and a
\* proper text was rejected: nothing was pushed for it.
C23_BlankSenderRejected ==
  /\ Len(wire) = 1
  /\ lastResult.op = "send"
  /\ lastResult.sent = [sender |-> " ", message |-> "hi"]
  /\ lastResult.push = "blank"

-----------------------------------------------------------------------------
(***************************************************************************)
(* Overlapping unsubscribe calls.                                          *)
(***************************************************************************)
\* C24: for any interleaving of overlapping unsubscribeFromMessages calls
\* with the same id (one issued by unsubscribeFromAllMessages included), the
\* underlying unsubscribe is invoked at most once for that id: no two
\* invocations for one id are awaited at the same time.
C24_OneTeardownPerId ==
  \A i, j \in 1 .. Len(unsubCalls) :
     i # j => unsubCalls[i].id # unsubCalls[j].id

-----------------------------------------------------------------------------
(***************************************************************************)
(* What the hook leaves behind.                                            *)
(***************************************************************************)
\* The registry entries whose registration was made by the useMessages hook.
HookEntries ==
  {k \in 1 .. Len(subscriptions) : RegOf(subscriptions[k].reg).owner = "hook"}

\* The component is unmounted (its last cleanup has run), no subscribe and no
\* unsubscribe is awaited any more, and no underlying unsubscribe ever threw.
HookSettled ==
  /\ ~mounted
  /\ subCalls = << >>
  /\ unsubCalls = << >>
  /\ \A id \in DOMAIN teardowns : teardowns[id].threw = 0

\* C25: after the cleanup of the useMessages effect has run and every pending
\* subscribe has settled, no subscription created by that hook remains in the
\* registry, also when the cleanup ran while the subscribe call was in flight.
C25_NoHookSubscriptionLeft ==
  HookSettled => HookEntries = {}

-----------------------------------------------------------------------------
(***************************************************************************)
(* Callback invocations per live record.                                   *)
(***************************************************************************)
\* C26: for each inbound live wire record the subscriber callback is invoked
\* at most once, in every encryption state and also when the callback itself
\* throws.
C26_CallbackAtMostOnce ==
  \A o \in outcomes : o.source = "filter" => o.calls <= 1

-----------------------------------------------------------------------------
(***************************************************************************)
(* Record processing and the encryption configuration.                     *)
(***************************************************************************)
\* Both receiving paths under every encryption configuration, with
\* subscribers whose callbacks may throw: records in the clear (decodable
\* and cut short), live deliveries, and a history query that runs to its end.
ProcessRecords ==
  {WireRecord(PlainCodec, encodeMessage(Hello)),
   WireRecord(PlainCodec, Truncated(Hello))}

NextProcess ==
  \/ ApiSubscribe
  \/ SubscribeSucceeds
  \/ RemotePublish(ProcessRecords)
  \/ DeliverLive(BOOLEAN)
  \/ QueryStart
  \/ QueryOpen(TRUE)
  \/ QueryRecord
  \/ QueryCompletes

SpecProcess == InitConnected /\ [][NextProcess]_vars

\* C27: processing an inbound record, live or historical, leaves the
\* encryption configuration as it found it: on every path (direct decode,
\* plaintext-fallback success, plaintext-fallback failure) the enabled flag,
\* the scheme and the keys after the handler returns equal their values
\* before it ran.
C27_ProcessingKeepsConfiguration ==
  [][outcomes' # outcomes => UNCHANGED encVars]_vars

\* Records went through the fallback on both of its paths, live and
\* historical, while encryption was enabled, and encryption is enabled.
C27_FallbackPathsTaken ==
  /\ isEncryptionEnabled
  /\ \E o \in outcomes : o.source = "filter" /\ o.path = "fallback" /\ o.enabled
  /\ \E o \in outcomes : o.source = "filter" /\ o.path = "undecodable" /\ o.enabled
  /\ \E o \in outcomes : o.source = "store" /\ o.path = "undecodable" /\ o.enabled

-----------------------------------------------------------------------------
(***************************************************************************)
(* The encrypted mark of an annotated message.                             *)
(***************************************************************************)
\* The annotated messages the hooks hold or a running query has collected.
Annotated ==
  Range(messages) \cup Range(historicalMessages) \cup Range(query.acc)

\* C28: an annotated message carries encrypted = true only if its wire record
\* was actually decrypted, that is, only if the decoder of the subscription
\* or query that delivered it was created as a decrypting decoder.  A
\* decrypting decoder hands over sealed records only and a plain decoder
\* yields no decodable message from a sealed record, so the record of such a
\* message is a sealed one.
C28_EncryptedOnlyIfDecrypted ==
  \A m \in Annotated : m.encrypted => wire[m.id.idx].enc # "plain"

-----------------------------------------------------------------------------
(***************************************************************************)
(* Encoder, decoder and readiness.                                         *)
(***************************************************************************)
\* C29: createEncoder returns an encrypting encoder exactly in the states
\* where encryption is enabled and isEncryptionReady() is true, and
\* createDecoder returns a decrypting decoder in exactly those same states;
\* in every other state both are plaintext.
C29_CodecsFollowReadiness ==
  /\ createEncoder.kind # "plain" <=> (isEncryptionEnabled /\ isEncryptionReady)
  /\ createDecoder.kind # "plain" <=> (isEncryptionEnabled /\ isEncryptionReady)

\* What does hold: with encryption disabled both are plaintext, when enabled
\* and ready both encrypt, and under the symmetric scheme both follow
\* readiness.
CodecsWhenDisabledOrReady ==
  /\ ~isEncryptionEnabled =>
       createEncoder.kind = "plain" /\ createDecoder.kind = "plain"
  /\ (isEncryptionEnabled /\ isEncryptionReady) =>
       createEncoder.kind = encryptionType /\ createDecoder.kind = encryptionType
  /\ (isEncryptionEnabled /\ encryptionType = "symmetric" /\ ~isEncryptionReady) =>
       createEncoder.kind = "plain" /\ createDecoder.kind = "plain"

-----------------------------------------------------------------------------
(***************************************************************************)
(* A failing unsubscribe and the registry.                                 *)
(***************************************************************************)
\* C30: if the underlying unsubscribe throws, unsubscribeFromMessages
\* propagates the error and leaves that entry in the registry; in every case
\* all other registry entries are unchanged.
C30_ThrowKeepsEntryOthersUntouched ==
  [][\A i \in 1 .. Len(unsubCalls) :
       LET id == unsubCalls[i].id
           others(map) == {e \in Range(map) : e.id # id}
       IN /\ UnsubSettle(i, FALSE) =>
               /\ subscriptions' = subscriptions
               /\ lastResult' = [op |-> "unsubscribe", id |-> id,
                                 result |-> "throws"]
          /\ UnsubSettle(i, TRUE) =>
               /\ others(subscriptions') = others(subscriptions)
               /\ ~MapHas(subscriptions', id)]_vars

\* An unsubscribe of one of two registered subscriptions threw: both entries
\* are in the registry.
C30_ThrewWithTwoRegistered ==
  /\ lastResult.op = "unsubscribe"
  /\ lastResult.result = "throws"
  /\ Len(subscriptions) = 2
  /\ MapHas(subscriptions, lastResult.id)
  /\ teardowns[lastResult.id].threw = 1

=============================================================================
